---- MODULE Spec2Model ----
(***************************************************************************)
(* Model of latlon-spherical.js: the LatLon point type, its great-circle   *)
(* and rhumb-line functions, and the worker's message listener.            *)
(*                                                                         *)
(* Numbers.  A JavaScript number is modelled as a fixed-point number with  *)
(* four decimal places: the integer n stands for n / Unit.  Lengths are    *)
(* the exception: a length n stands for n metres, so that the product      *)
(* Mul(length, ratio) is again a length and the quotient Div(length,       *)
(* length) a ratio.  NaN, +Infinity and -Infinity are three values outside *)
(* the finite range; a finite result beyond MaxNum overflows to an         *)
(* infinity as a double beyond Number.MAX_VALUE does.  There is one zero   *)
(* (no -0).  Math.sin, Math.cos, ... are evaluated in this arithmetic and  *)
(* are accurate to about two units in the last place.                      *)
(***************************************************************************)
EXTENDS Integers, Sequences, FiniteSets, TLC

\* ------------------------------------------------------------ numbers

\* one, in fixed point
Unit == 10^4

\* the largest finite magnitude of the number format
MaxNum == 5 * 10^8

\* Infinity, -Infinity, NaN and undefined
PInf == 2 * 10^9

NInf == 0 - PInf

NaN == PInf + 1

Undefined == PInf + 2

\* null
Null == PInf + 3

\* Math.PI
PI == 31416

IsNaN(a) == a = NaN

IsInf(a) == a = PInf \/ a = NInf

IsFinite(a) == a # NaN /\ a # PInf /\ a # NInf /\ a # Undefined

\* Number(x): undefined converts to NaN
Number(x) == IF x = Undefined THEN NaN ELSE x

AbsI(n) == IF n < 0 THEN 0 - n ELSE n

Sgn(n) == IF n < 0 THEN 0 - 1 ELSE IF n > 0 THEN 1 ELSE 0

\* a finite result, or the infinity it overflows to
Fit(n) == IF n > MaxNum THEN PInf ELSE IF n < 0 - MaxNum THEN NInf ELSE n

\* unary minus
Neg(a) == IF a = NaN THEN NaN ELSE 0 - a

(***************************************************************************)
(* Call(f, args) is the call of the function named f: an arithmetic        *)
(* operator, a function of Math, or a function of the library.  The        *)
(* functions are defined below under their own names and call one another  *)
(* through Call.                                                           *)
(***************************************************************************)
RECURSIVE Call(_, _)

\* a + b, a * b, a / b, a % b
Add(a, b) == Call("+", <<a, b>>)

Mul(a, b) == Call("*", <<a, b>>)

Div(a, b) == Call("/", <<a, b>>)

Rem(a, b) == Call("%", <<a, b>>)

\* Math.sqrt(a), Math.sin(a), ...
Sqrt(a) == Call("Math.sqrt", <<a>>)

Sin(a) == Call("Math.sin", <<a>>)

Cos(a) == Call("Math.cos", <<a>>)

Tan(a) == Call("Math.tan", <<a>>)

Atan2(y, x) == Call("Math.atan2", <<y, x>>)

Asin(a) == Call("Math.asin", <<a>>)

Acos(a) == Call("Math.acos", <<a>>)

Log(a) == Call("Math.log", <<a>>)

\* a + b
Plus(a, b) ==
  IF a = NaN \/ b = NaN THEN NaN
  ELSE IF IsInf(a) THEN (IF IsInf(b) /\ b # a THEN NaN ELSE a)
  ELSE IF IsInf(b) THEN b
  ELSE Fit(a + b)

\* a - b
Sub(a, b) == Add(a, Neg(b))

\* the product of two finite magnitudes, rounded to nearest
MulMag(a, b) ==
  LET ah == a \div Unit
      al == a % Unit
      bh == b \div Unit
      bl == b % Unit
  IN  IF ah # 0 /\ bh > (MaxNum \div Unit) \div ah THEN PInf
      ELSE Fit(ah * bh * Unit + ah * bl + al * bh + (al * bl + Unit \div 2) \div Unit)

\* a * b
Times(a, b) ==
  IF a = NaN \/ b = NaN THEN NaN
  ELSE IF IsInf(a) \/ IsInf(b)
       THEN (IF a = 0 \/ b = 0 THEN NaN
             ELSE IF Sgn(a) * Sgn(b) > 0 THEN PInf ELSE NInf)
  ELSE LET m == MulMag(AbsI(a), AbsI(b))
       IN  IF Sgn(a) * Sgn(b) >= 0 THEN m ELSE Neg(m)

\* the quotient of two finite magnitudes (b > 0), by long division to four
\* decimal places, rounded to nearest
DivMag(a, b) ==
  LET q  == a \div b
      r  == a % b
      r1 == r * 10
      r2 == (r1 % b) * 10
      r3 == (r2 % b) * 10
      r4 == (r3 % b) * 10
  IN  IF q > MaxNum \div Unit THEN PInf
      ELSE IF b > 2 * 10^8 THEN Fit(q * Unit + r \div (b \div Unit))
      ELSE Fit(q * Unit + (r1 \div b) * 1000 + (r2 \div b) * 100 + (r3 \div b) * 10
               + (r4 \div b) + (IF 2 * (r4 % b) >= b THEN 1 ELSE 0))

\* a / b: 0/0 and Infinity/Infinity are NaN, x/0 is an infinity
Quotient(a, b) ==
  IF a = NaN \/ b = NaN THEN NaN
  ELSE IF IsInf(a) THEN (IF IsInf(b) THEN NaN ELSE IF b >= 0 THEN a ELSE Neg(a))
  ELSE IF IsInf(b) THEN 0
  ELSE IF b = 0 THEN (IF a = 0 THEN NaN ELSE IF a > 0 THEN PInf ELSE NInf)
  ELSE LET m == DivMag(AbsI(a), AbsI(b))
       IN  IF Sgn(a) * Sgn(b) >= 0 THEN m ELSE Neg(m)

\* a < b, a > b, a == b: every comparison with NaN is false
Lt(a, b) == a # NaN /\ b # NaN /\ a < b

Gt(a, b) == Lt(b, a)

Eq(a, b) == a # NaN /\ b # NaN /\ a = b

\* Math.abs
Abs(a) == IF a = NaN THEN NaN ELSE AbsI(a)

\* a % b of JavaScript: the remainder has the sign of the dividend
Remainder(a, b) ==
  IF a = NaN \/ b = NaN \/ IsInf(a) \/ b = 0 THEN NaN
  ELSE IF IsInf(b) THEN a
  ELSE IF a >= 0 THEN a % AbsI(b) ELSE 0 - ((0 - a) % AbsI(b))

\* the largest r in lo..hi with r * r <= n
RECURSIVE ISqrtIn(_, _, _)
ISqrtIn(n, lo, hi) ==
  IF lo >= hi THEN lo
  ELSE LET mid == (lo + hi + 1) \div 2
       IN  IF mid * mid <= n THEN ISqrtIn(n, mid, hi) ELSE ISqrtIn(n, lo, mid - 1)

ISqrt(n) == ISqrtIn(n, 0, 46340)

\* Math.sqrt: NaN below zero
MathSqrt(a) ==
  IF a = NaN \/ a < 0 THEN NaN
  ELSE IF a = PInf THEN PInf
  ELSE IF a <= 2 * 10^5 THEN ISqrt(a * Unit)
  ELSE 100 * ISqrt(a)

\* the sine of x in 0..PI/2, by its Taylor polynomial to x^9
SinQ(x) ==
  LET x2 == (x * x) \div Unit
      t1 == Unit - x2 \div 72
      t2 == Unit - (x2 * t1) \div (42 * Unit)
      t3 == Unit - (x2 * t2) \div (20 * Unit)
      t4 == Unit - (x2 * t3) \div (6 * Unit)
  IN  (x * t4 + Unit \div 2) \div Unit

\* the sine of r in 0..2*PI
SinR(r) ==
  IF r <= PI \div 2 THEN SinQ(r)
  ELSE IF r <= PI THEN SinQ(PI - r)
  ELSE IF r <= (3 * PI) \div 2 THEN 0 - SinQ(r - PI)
  ELSE 0 - SinQ(2 * PI - r)

\* Math.sin, Math.cos: NaN at NaN and at the infinities
MathSin(a) == IF ~IsFinite(a) THEN NaN ELSE SinR(a % (2 * PI))

MathCos(a) == IF ~IsFinite(a) THEN NaN ELSE SinR((a + PI \div 2) % (2 * PI))

\* the value of Math.tan at the model's PI/2: no double equals pi/2, so
\* Math.tan of a finite number is finite (about 1.6e16 at Math.PI/2)
TanMax == 10^8

\* Math.tan
MathTan(a) ==
  IF ~IsFinite(a) THEN NaN
  ELSE IF Cos(a) = 0 THEN (IF Sin(a) > 0 THEN TanMax ELSE 0 - TanMax)
  ELSE Div(Sin(a), Cos(a))

\* the arctangent of t, |t| <= tan(PI/8), by its Taylor polynomial to t^9
AtanS(t) ==
  LET t2 == (t * t) \div Unit
      p1 == Unit \div 9
      p2 == Unit \div 7 - (t2 * p1) \div Unit
      p3 == Unit \div 5 - (t2 * p2) \div Unit
      p4 == Unit \div 3 - (t2 * p3) \div Unit
      p5 == Unit - (t2 * p4) \div Unit
  IN  (t * p5 + Unit \div 2) \div Unit

\* the arctangent of t in 0..1: atan t = PI/4 - atan((1 - t) / (1 + t))
Atan01(t) ==
  IF t <= 4142 THEN AtanS(t)
  ELSE PI \div 4 - AtanS(DivMag(Unit - t, Unit + t))

\* the angle of (x, y) in the first quadrant, y >= 0, x >= 0, not both 0
AtanPos(y, x) ==
  IF y = PInf /\ x = PInf THEN PI \div 4
  ELSE IF y = PInf THEN PI \div 2
  ELSE IF x = PInf THEN 0
  ELSE IF y <= x THEN Atan01(DivMag(y, x))
  ELSE PI \div 2 - Atan01(DivMag(x, y))

\* Math.atan2, in -PI..PI
MathAtan2(y, x) ==
  IF y = NaN \/ x = NaN THEN NaN
  ELSE IF y = 0 THEN (IF x >= 0 THEN 0 ELSE PI)
  ELSE LET a == AtanPos(AbsI(y), AbsI(x))
           b == IF x < 0 THEN PI - a ELSE a
       IN  IF y > 0 THEN b ELSE 0 - b

\* Math.asin, Math.acos: NaN outside -1..1
MathAsin(a) ==
  IF a = NaN \/ Gt(Abs(a), Unit) THEN NaN
  ELSE Atan2(a, ISqrt(Unit * Unit - a * a))

MathAcos(a) ==
  IF a = NaN \/ Gt(Abs(a), Unit) THEN NaN
  ELSE Atan2(ISqrt(Unit * Unit - a * a), a)

\* Math.LN2
LN2 == 6931

\* 2 atanh(z) for z in 0..1/5, by its Taylor polynomial to z^7; the logarithm
\* of m in 3/4..3/2 is 2 atanh((m - 1) / (m + 1))
Atanh2(z) ==
  LET z2 == (z * z) \div Unit
      p1 == Unit \div 7
      p2 == Unit \div 5 + (z2 * p1) \div Unit
      p3 == Unit \div 3 + (z2 * p2) \div Unit
      p4 == Unit + (z2 * p3) \div Unit
  IN  (2 * z * p4 + Unit \div 2) \div Unit

LogM(m) ==
  IF m >= Unit THEN Atanh2(DivMag(m - Unit, m + Unit))
  ELSE 0 - Atanh2(DivMag(Unit - m, m + Unit))

\* log(m * 2^k), m > 0
RECURSIVE LogN(_, _)
LogN(m, k) ==
  IF m > (3 * Unit) \div 2 THEN LogN((m + 1) \div 2, k + 1)
  ELSE IF m < (3 * Unit) \div 4 THEN LogN(m * 2, k - 1)
  ELSE k * LN2 + LogM(m)

\* Math.log: NaN below zero, -Infinity at zero
MathLog(a) ==
  IF a = NaN \/ a < 0 THEN NaN
  ELSE IF a = 0 THEN NInf
  ELSE IF a = PInf THEN PInf
  ELSE LogN(a, 0)

\* Number.prototype.toRadians, Number.prototype.toDegrees
toRadians(a) == Div(Mul(a, PI), 180 * Unit)

toDegrees(a) == Div(Mul(a, 180 * Unit), PI)

\* ------------------------------------------------------------ objects

(***************************************************************************)
(* A heap is a sequence of objects; a reference is an index into it.  A    *)
(* value in a Point position is a reference or undefined.  A call maps a   *)
(* heap to an outcome: what it returned or threw, and the heap after it.   *)
(***************************************************************************)

\* an object made by the LatLon constructor, and a plain object literal
\* { lat: ..., lon: ... }
LatLonObject(lat, lon) == [class |-> "LatLon", lat |-> lat, lon |-> lon]

PlainObject(lat, lon) == [class |-> "Object", lat |-> lat, lon |-> lon]

\* return v, of type "number", "object" or "null"
Return(h, type, v) ==
  [kind |-> "return", type |-> type, value |-> v, message |-> "", heap |-> h]

\* throw new TypeError(message)
ThrowTypeError(h, message) ==
  [kind |-> "throw", type |-> "TypeError", value |-> Undefined, message |-> message,
   heap |-> h]

\* x instanceof LatLon
InstanceOfLatLon(h, x) == x \in DOMAIN h /\ h[x].class = "LatLon"

\* x is an object whose lat and lon are numbers
HasLatLon(h, x) == x \in DOMAIN h /\ "lat" \in DOMAIN h[x] /\ "lon" \in DOMAIN h[x]

\* radius = (radius === undefined) ? 6371e3 : Number(radius)
EarthRadius == 6371000

RadiusOrDefault(radius) == IF radius = Undefined THEN EarthRadius ELSE Number(radius)

\* (x + 540) % 360 - 180 and (x + 360) % 360
Wrap180(x) == Sub(Rem(Add(x, 540 * Unit), 360 * Unit), 180 * Unit)

Wrap360(x) == Rem(Add(x, 360 * Unit), 360 * Unit)

\* x / 2
Half(x) == Div(x, 2 * Unit)

\* new LatLon(lat, lon), also when called without new
LatLon(h, lat, lon) ==
  Return(Append(h, LatLonObject(Number(lat), Number(lon))), "object", Len(h) + 1)

\* ------------------------------------------------------------ great circle

\* var x = v; followed by the statements F, which read x
Let(v, F(_)) == F(v)

\* the haversine term a of two points given in radians
Haversine(phi1, lambda1, phi2, lambda2) ==
  LET dphi    == Sub(phi2, phi1)
      dlambda == Sub(lambda2, lambda1)
  IN  Add(Mul(Sin(Half(dphi)), Sin(Half(dphi))),
          Mul(Mul(Mul(Cos(phi1), Cos(phi2)), Sin(Half(dlambda))), Sin(Half(dlambda))))

distanceTo(h, this, point, radius) ==
  IF ~InstanceOfLatLon(h, point) THEN ThrowTypeError(h, "point is not LatLon object")
  ELSE LET R       == RadiusOrDefault(radius)
           phi1    == toRadians(h[this].lat)
           lambda1 == toRadians(h[this].lon)
           phi2    == toRadians(h[point].lat)
           lambda2 == toRadians(h[point].lon)
       IN
       Let(Haversine(phi1, lambda1, phi2, lambda2), LAMBDA a :
       Let(Mul(2 * Unit, Atan2(Sqrt(a), Sqrt(Sub(Unit, a)))), LAMBDA c :
       Let(Mul(R, c), LAMBDA d :
       Return(h, "number", d))))

bearingTo(h, this, point) ==
  IF ~InstanceOfLatLon(h, point) THEN ThrowTypeError(h, "point is not LatLon object")
  ELSE LET phi1    == toRadians(h[this].lat)
           phi2    == toRadians(h[point].lat)
           dlambda == toRadians(Sub(h[point].lon, h[this].lon))
           y       == Mul(Sin(dlambda), Cos(phi2))
           x       == Sub(Mul(Cos(phi1), Sin(phi2)),
                          Mul(Mul(Sin(phi1), Cos(phi2)), Cos(dlambda)))
           theta   == Atan2(y, x)
       IN  Return(h, "number", Wrap360(toDegrees(theta)))

finalBearingTo(h, this, point) ==
  IF ~InstanceOfLatLon(h, point) THEN ThrowTypeError(h, "point is not LatLon object")
  ELSE Return(h, "number",
              Rem(Add(Call("bearingTo", <<h, point, this>>).value, 180 * Unit), 360 * Unit))

\* a faulty midpointTo, which moves its receiver to the midpoint and returns it
midpointToInPlace(h, this, point) ==
  IF ~InstanceOfLatLon(h, point) THEN ThrowTypeError(h, "point is not LatLon object")
  ELSE LET phi1    == toRadians(h[this].lat)
           lambda1 == toRadians(h[this].lon)
           phi2    == toRadians(h[point].lat)
           dlambda == toRadians(Sub(h[point].lon, h[this].lon))
       IN
       Let(Mul(Cos(phi2), Cos(dlambda)), LAMBDA Bx :
       Let(Mul(Cos(phi2), Sin(dlambda)), LAMBDA By :
       Let(Sqrt(Add(Mul(Add(Cos(phi1), Bx), Add(Cos(phi1), Bx)), Mul(By, By))),
           LAMBDA x :
       Let(Add(Sin(phi1), Sin(phi2)), LAMBDA y :
       Let(Atan2(y, x), LAMBDA phi3 :
       Let(Add(lambda1, Atan2(By, Add(Cos(phi1), Bx))), LAMBDA lambda3 :
       Return([h EXCEPT ![this].lat = toDegrees(phi3),
                        ![this].lon = Wrap180(toDegrees(lambda3))],
              "object", this)))))))

midpointTo(h, this, point) ==
  IF ~InstanceOfLatLon(h, point) THEN ThrowTypeError(h, "point is not LatLon object")
  ELSE LET phi1    == toRadians(h[this].lat)
           lambda1 == toRadians(h[this].lon)
           phi2    == toRadians(h[point].lat)
           dlambda == toRadians(Sub(h[point].lon, h[this].lon))
       IN
       Let(Mul(Cos(phi2), Cos(dlambda)), LAMBDA Bx :
       Let(Mul(Cos(phi2), Sin(dlambda)), LAMBDA By :
       Let(Sqrt(Add(Mul(Add(Cos(phi1), Bx), Add(Cos(phi1), Bx)), Mul(By, By))),
           LAMBDA x :
       Let(Add(Sin(phi1), Sin(phi2)), LAMBDA y :
       Let(Atan2(y, x), LAMBDA phi3 :
       Let(Add(lambda1, Atan2(By, Add(Cos(phi1), Bx))), LAMBDA lambda3 :
       LatLon(h, toDegrees(phi3), Wrap180(toDegrees(lambda3)))))))))

intermediatePointTo(h, this, point, fraction) ==
  IF ~InstanceOfLatLon(h, point) THEN ThrowTypeError(h, "point is not LatLon object")
  ELSE LET phi1    == toRadians(h[this].lat)
           lambda1 == toRadians(h[this].lon)
           phi2    == toRadians(h[point].lat)
           lambda2 == toRadians(h[point].lon)
       IN
       Let(Haversine(phi1, lambda1, phi2, lambda2), LAMBDA a :
       Let(Mul(2 * Unit, Atan2(Sqrt(a), Sqrt(Sub(Unit, a)))), LAMBDA delta :
       Let(Div(Sin(Mul(Sub(Unit, fraction), delta)), Sin(delta)), LAMBDA A :
       Let(Div(Sin(Mul(fraction, delta)), Sin(delta)), LAMBDA B :
       Let(Add(Mul(Mul(A, Cos(phi1)), Cos(lambda1)),
               Mul(Mul(B, Cos(phi2)), Cos(lambda2))), LAMBDA x :
       Let(Add(Mul(Mul(A, Cos(phi1)), Sin(lambda1)),
               Mul(Mul(B, Cos(phi2)), Sin(lambda2))), LAMBDA y :
       Let(Add(Mul(A, Sin(phi1)), Mul(B, Sin(phi2))), LAMBDA z :
       Let(Atan2(z, Sqrt(Add(Mul(x, x), Mul(y, y)))), LAMBDA phi3 :
       Let(Atan2(y, x), LAMBDA lambda3 :
       LatLon(h, toDegrees(phi3), Wrap180(toDegrees(lambda3))))))))))))

destinationPoint(h, this, distance, bearing, radius) ==
  LET R       == RadiusOrDefault(radius)
      delta   == Div(Number(distance), R)
      theta   == toRadians(Number(bearing))
      phi1    == toRadians(h[this].lat)
      lambda1 == toRadians(h[this].lon)
  IN
  Let(Asin(Add(Mul(Sin(phi1), Cos(delta)),
               Mul(Mul(Cos(phi1), Sin(delta)), Cos(theta)))), LAMBDA phi2 :
  Let(Sub(Cos(delta), Mul(Sin(phi1), Sin(phi2))), LAMBDA x :
  Let(Mul(Mul(Sin(theta), Sin(delta)), Cos(phi1)), LAMBDA y :
  Let(Add(lambda1, Atan2(y, x)), LAMBDA lambda2 :
  LatLon(h, toDegrees(phi2), Wrap180(toDegrees(lambda2)))))))

\* the locals of LatLon.intersection, in the order the code computes them;
\* thetaA is the arc-cosine before the isNaN test, thetaa the angle after it
intersectionLocals(h, p1, brng1, p2, brng2) ==
  LET phi1    == toRadians(h[p1].lat)
      lambda1 == toRadians(h[p1].lon)
      phi2    == toRadians(h[p2].lat)
      lambda2 == toRadians(h[p2].lon)
      theta13 == toRadians(Number(brng1))
      theta23 == toRadians(Number(brng2))
      east    == Gt(Sin(Sub(lambda2, lambda1)), 0)
  IN
  Let(Mul(2 * Unit, Asin(Sqrt(Haversine(phi1, lambda1, phi2, lambda2)))),
      LAMBDA delta12 :
  Let(Acos(Div(Sub(Sin(phi2), Mul(Sin(phi1), Cos(delta12))),
               Mul(Sin(delta12), Cos(phi1)))), LAMBDA thetaA :
  Let(IF IsNaN(thetaA) THEN 0 ELSE thetaA, LAMBDA thetaa :
  Let(Acos(Div(Sub(Sin(phi1), Mul(Sin(phi2), Cos(delta12))),
               Mul(Sin(delta12), Cos(phi2)))), LAMBDA thetab :
  Let(IF east THEN thetaa ELSE Sub(2 * PI, thetaa), LAMBDA theta12 :
  Let(IF east THEN Sub(2 * PI, thetab) ELSE thetab, LAMBDA theta21 :
  Let(Sub(Rem(Add(Sub(theta13, theta12), PI), 2 * PI), PI), LAMBDA alpha1 :
  Let(Sub(Rem(Add(Sub(theta21, theta23), PI), 2 * PI), PI), LAMBDA alpha2 :
  Let(Acos(Add(Mul(Neg(Cos(alpha1)), Cos(alpha2)),
               Mul(Mul(Sin(alpha1), Sin(alpha2)), Cos(delta12)))), LAMBDA alpha3 :
  Let(Atan2(Mul(Mul(Sin(delta12), Sin(alpha1)), Sin(alpha2)),
            Add(Cos(alpha2), Mul(Cos(alpha1), Cos(alpha3)))), LAMBDA delta13 :
  Let(Asin(Add(Mul(Sin(phi1), Cos(delta13)),
               Mul(Mul(Cos(phi1), Sin(delta13)), Cos(theta13)))), LAMBDA phi3 :
  Let(Atan2(Mul(Mul(Sin(theta13), Sin(delta13)), Cos(phi1)),
            Sub(Cos(delta13), Mul(Sin(phi1), Sin(phi3)))), LAMBDA dlambda13 :
  [delta12 |-> delta12, thetaA |-> thetaA, thetaa |-> thetaa, thetab |-> thetab,
   alpha1 |-> alpha1, alpha2 |-> alpha2, alpha3 |-> alpha3,
   phi3 |-> phi3, lambda3 |-> Add(lambda1, dlambda13)]))))))))))))

\* a faulty intersection, which does not test whether the points coincide
intersectionUntested(h, p1, brng1, p2, brng2) ==
  IF ~InstanceOfLatLon(h, p1) THEN ThrowTypeError(h, "p1 is not LatLon object")
  ELSE IF ~InstanceOfLatLon(h, p2) THEN ThrowTypeError(h, "p2 is not LatLon object")
  ELSE Let(Call("intersectionLocals", <<h, p1, brng1, p2, brng2>>), LAMBDA l :
       IF Eq(Sin(l.alpha1), 0) /\ Eq(Sin(l.alpha2), 0)
       THEN Return(h, "null", Null)
       ELSE IF Lt(Mul(Sin(l.alpha1), Sin(l.alpha2)), 0)
            THEN Return(h, "null", Null)
       ELSE LatLon(h, toDegrees(l.phi3), Wrap180(toDegrees(l.lambda3))))

intersection(h, p1, brng1, p2, brng2) ==
  IF ~InstanceOfLatLon(h, p1) THEN ThrowTypeError(h, "p1 is not LatLon object")
  ELSE IF ~InstanceOfLatLon(h, p2) THEN ThrowTypeError(h, "p2 is not LatLon object")
  ELSE Let(Call("intersectionLocals", <<h, p1, brng1, p2, brng2>>), LAMBDA l :
       IF Eq(l.delta12, 0) THEN Return(h, "null", Null)
       ELSE IF Eq(Sin(l.alpha1), 0) /\ Eq(Sin(l.alpha2), 0)
            THEN Return(h, "null", Null)
       ELSE IF Lt(Mul(Sin(l.alpha1), Sin(l.alpha2)), 0)
            THEN Return(h, "null", Null)
       ELSE LatLon(h, toDegrees(l.phi3), Wrap180(toDegrees(l.lambda3))))

crossTrackDistanceTo(h, this, pathStart, pathEnd, radius) ==
  IF ~InstanceOfLatLon(h, pathStart)
  THEN ThrowTypeError(h, "pathStart is not LatLon object")
  ELSE IF ~InstanceOfLatLon(h, pathEnd)
  THEN ThrowTypeError(h, "pathEnd is not LatLon object")
  ELSE LET R       == RadiusOrDefault(radius)
           delta13 == Div(Call("distanceTo", <<h, pathStart, this, R>>).value, R)
           theta13 == toRadians(Call("bearingTo", <<h, pathStart, this>>).value)
           theta12 == toRadians(Call("bearingTo", <<h, pathStart, pathEnd>>).value)
           dxt     == Mul(Asin(Mul(Sin(delta13), Sin(Sub(theta13, theta12)))), R)
       IN  Return(h, "number", dxt)

maxLatitude(h, this, bearing) ==
  LET theta  == toRadians(Number(bearing))
      phi    == toRadians(h[this].lat)
      phiMax == Acos(Abs(Mul(Sin(theta), Cos(phi))))
  IN  Return(h, "number", toDegrees(phiMax))

\* the object literal { lon1: ..., lon2: ... }
CrossingObject(lon1, lon2) == [class |-> "Object", lon1 |-> lon1, lon2 |-> lon2]

\* LatLon.crossingParallels tests neither argument with instanceof: reading
\* point1.lat of undefined, or point1.lat.toRadians() of an object without a
\* lat, throws the engine's own TypeError, and any object with numeric lat and
\* lon is computed with
crossingParallels(h, point1, point2, latitude) ==
  IF point1 \notin DOMAIN h \/ point2 \notin DOMAIN h
  THEN ThrowTypeError(h, "Cannot read property 'lat' of undefined")
  ELSE IF ~HasLatLon(h, point1) \/ ~HasLatLon(h, point2)
  THEN ThrowTypeError(h, "Cannot read property 'toRadians' of undefined")
  ELSE LET phi     == toRadians(Number(latitude))
           phi1    == toRadians(h[point1].lat)
           lambda1 == toRadians(h[point1].lon)
           phi2    == toRadians(h[point2].lat)
           lambda2 == toRadians(h[point2].lon)
           dlambda == Sub(lambda2, lambda1)
       IN
       Let(Mul(Mul(Mul(Sin(phi1), Cos(phi2)), Cos(phi)), Sin(dlambda)), LAMBDA x :
       Let(Sub(Mul(Mul(Mul(Sin(phi1), Cos(phi2)), Cos(phi)), Cos(dlambda)),
               Mul(Mul(Cos(phi1), Sin(phi2)), Cos(phi))), LAMBDA y :
       Let(Mul(Mul(Mul(Cos(phi1), Cos(phi2)), Sin(phi)), Sin(dlambda)), LAMBDA z :
       IF Gt(Mul(z, z), Add(Mul(x, x), Mul(y, y))) THEN Return(h, "null", Null)
       ELSE
       Let(Atan2(Neg(y), x), LAMBDA lambdam :
       Let(Acos(Div(z, Sqrt(Add(Mul(x, x), Mul(y, y))))), LAMBDA dlambdai :
       Let(Sub(Add(lambda1, lambdam), dlambdai), LAMBDA lambdai1 :
       Let(Add(Add(lambda1, lambdam), dlambdai), LAMBDA lambdai2 :
       Return(Append(h, CrossingObject(Wrap180(toDegrees(lambdai1)),
                                       Wrap180(toDegrees(lambdai2)))),
              "object", Len(h) + 1))))))))

\* ------------------------------------------------------------ rhumb lines

\* if (Math.abs(dlambda) > Math.PI) dlambda = dlambda>0 ? -(2*Math.PI-dlambda) : (2*Math.PI+dlambda)
ShorterWay(dlambda) ==
  IF Gt(Abs(dlambda), PI)
  THEN (IF Gt(dlambda, 0) THEN Neg(Sub(2 * PI, dlambda)) ELSE Add(2 * PI, dlambda))
  ELSE dlambda

\* Math.log(Math.tan(phi2/2+Math.PI/4)/Math.tan(phi1/2+Math.PI/4))
DeltaPsi(phi1, phi2) ==
  Log(Div(Tan(Add(Half(phi2), Div(PI, 4 * Unit))), Tan(Add(Half(phi1), Div(PI, 4 * Unit)))))

\* the tolerance 10e-12, which is zero to four decimal places
Tolerance == 0

\* the locals of rhumbDistanceTo that hold the longitude difference: dlambda
\* is the local after the anti-meridian test, the value the formula reads
rhumbDistanceLocals(h, this, point) ==
  Let(toRadians(Abs(Sub(h[point].lon, h[this].lon))), LAMBDA dlambda :
  [dlambda |-> ShorterWay(dlambda)])

\* the locals of rhumbBearingTo that hold the longitude difference
rhumbBearingLocals(h, this, point) ==
  Let(toRadians(Sub(h[point].lon, h[this].lon)), LAMBDA dlambda :
  [dlambda |-> ShorterWay(dlambda)])

rhumbDistanceTo(h, this, point, radius) ==
  IF ~InstanceOfLatLon(h, point) THEN ThrowTypeError(h, "point is not LatLon object")
  ELSE LET R       == RadiusOrDefault(radius)
           phi1    == toRadians(h[this].lat)
           phi2    == toRadians(h[point].lat)
           dphi    == Sub(phi2, phi1)
       IN
       Let(Call("rhumbDistanceLocals", <<h, this, point>>).dlambda, LAMBDA dlambda :
       Let(DeltaPsi(phi1, phi2), LAMBDA dpsi :
       Let(IF Gt(Abs(dpsi), Tolerance) THEN Div(dphi, dpsi) ELSE Cos(phi1), LAMBDA q :
       Let(Sqrt(Add(Mul(dphi, dphi), Mul(Mul(Mul(q, q), dlambda), dlambda))),
           LAMBDA delta :
       Return(h, "number", Mul(delta, R))))))

rhumbBearingTo(h, this, point) ==
  IF ~InstanceOfLatLon(h, point) THEN ThrowTypeError(h, "point is not LatLon object")
  ELSE LET phi1    == toRadians(h[this].lat)
           phi2    == toRadians(h[point].lat)
           dpsi    == DeltaPsi(phi1, phi2)
       IN
       Let(Call("rhumbBearingLocals", <<h, this, point>>).dlambda, LAMBDA dlambda :
       Let(Atan2(dlambda, dpsi), LAMBDA theta :
       Return(h, "number", Wrap360(toDegrees(theta)))))

rhumbDestinationPoint(h, this, distance, bearing, radius) ==
  LET R       == RadiusOrDefault(radius)
      delta   == Div(Number(distance), R)
      phi1    == toRadians(h[this].lat)
      lambda1 == toRadians(h[this].lon)
      theta   == toRadians(Number(bearing))
  IN
  Let(Mul(delta, Cos(theta)), LAMBDA dphi :
  Let(Add(phi1, dphi), LAMBDA phi2a :
  Let(IF Gt(Abs(phi2a), Div(PI, 2 * Unit))
      THEN (IF Gt(phi2a, 0) THEN Sub(PI, phi2a) ELSE Sub(Neg(PI), phi2a))
      ELSE phi2a, LAMBDA phi2 :
  Let(DeltaPsi(phi1, phi2), LAMBDA dpsi :
  Let(IF Gt(Abs(dpsi), Tolerance) THEN Div(dphi, dpsi) ELSE Cos(phi1), LAMBDA q :
  Let(Div(Mul(delta, Sin(theta)), q), LAMBDA dlambda :
  Let(Add(lambda1, dlambda), LAMBDA lambda2 :
  LatLon(h, toDegrees(phi2), Wrap180(toDegrees(lambda2))))))))))

\* rhumbMidpointTo without the shift of lambda1 across the anti-meridian
rhumbMidpointLocalsUnshifted(h, this, point) ==
  LET phi1    == toRadians(h[this].lat)
      phi2    == toRadians(h[point].lat)
      lambda2 == toRadians(h[point].lon)
  IN
  Let(toRadians(h[this].lon), LAMBDA lambda1 :
  Let(Half(Add(phi1, phi2)), LAMBDA phi3 :
  Let(Tan(Add(Div(PI, 4 * Unit), Half(phi1))), LAMBDA f1 :
  Let(Tan(Add(Div(PI, 4 * Unit), Half(phi2))), LAMBDA f2 :
  Let(Tan(Add(Div(PI, 4 * Unit), Half(phi3))), LAMBDA f3 :
  Let(Div(Sub(Add(Mul(Sub(lambda2, lambda1), Log(f3)), Mul(lambda1, Log(f2))),
              Mul(lambda2, Log(f1))),
          Log(Div(f2, f1))), LAMBDA quot :
  Let(IF ~IsFinite(quot) THEN Half(Add(lambda1, lambda2)) ELSE quot, LAMBDA lambda3 :
  [lambda1 |-> lambda1, lambda2 |-> lambda2, phi3 |-> phi3, quot |-> quot,
   lambda3 |-> lambda3])))))))

\* the locals of rhumbMidpointTo; lambda1 is the local after
\* if (Math.abs(lambda2-lambda1) > Math.PI) lambda1 += 2*Math.PI
rhumbMidpointLocals(h, this, point) ==
  LET phi1    == toRadians(h[this].lat)
      phi2    == toRadians(h[point].lat)
      lambda2 == toRadians(h[point].lon)
  IN
  Let(toRadians(h[this].lon), LAMBDA lambda1a :
  Let(IF Gt(Abs(Sub(lambda2, lambda1a)), PI) THEN Add(lambda1a, 2 * PI) ELSE lambda1a,
      LAMBDA lambda1 :
  Let(Half(Add(phi1, phi2)), LAMBDA phi3 :
  Let(Tan(Add(Div(PI, 4 * Unit), Half(phi1))), LAMBDA f1 :
  Let(Tan(Add(Div(PI, 4 * Unit), Half(phi2))), LAMBDA f2 :
  Let(Tan(Add(Div(PI, 4 * Unit), Half(phi3))), LAMBDA f3 :
  Let(Div(Sub(Add(Mul(Sub(lambda2, lambda1), Log(f3)), Mul(lambda1, Log(f2))),
              Mul(lambda2, Log(f1))),
          Log(Div(f2, f1))), LAMBDA quot :
  Let(IF ~IsFinite(quot) THEN Half(Add(lambda1, lambda2)) ELSE quot, LAMBDA lambda3 :
  [lambda1 |-> lambda1, lambda2 |-> lambda2, phi3 |-> phi3, quot |-> quot,
   lambda3 |-> lambda3]))))))))

rhumbMidpointTo(h, this, point) ==
  IF ~InstanceOfLatLon(h, point) THEN ThrowTypeError(h, "point is not LatLon object")
  ELSE Let(Call("rhumbMidpointLocals", <<h, this, point>>), LAMBDA l :
       LatLon(h, toDegrees(l.phi3), Wrap180(toDegrees(l.lambda3))))

\* ------------------------------------------------------------ calls

Call(f, a) ==
  CASE f = "+" -> Plus(a[1], a[2])
    [] f = "*" -> Times(a[1], a[2])
    [] f = "/" -> Quotient(a[1], a[2])
    [] f = "%" -> Remainder(a[1], a[2])
    [] f = "Math.sin" -> MathSin(a[1])
    [] f = "Math.cos" -> MathCos(a[1])
    [] f = "Math.sqrt" -> MathSqrt(a[1])
    [] f = "Math.atan2" -> MathAtan2(a[1], a[2])
    [] f = "Math.asin" -> MathAsin(a[1])
    [] f = "Math.acos" -> MathAcos(a[1])
    [] f = "Math.tan" -> MathTan(a[1])
    [] f = "Math.log" -> MathLog(a[1])
    [] f = "distanceTo" -> distanceTo(a[1], a[2], a[3], a[4])
    [] f = "bearingTo" -> bearingTo(a[1], a[2], a[3])
    [] f = "finalBearingTo" -> finalBearingTo(a[1], a[2], a[3])
    [] f = "midpointTo" -> midpointTo(a[1], a[2], a[3])
    [] f = "intermediatePointTo" -> intermediatePointTo(a[1], a[2], a[3], a[4])
    [] f = "destinationPoint" -> destinationPoint(a[1], a[2], a[3], a[4], a[5])
    [] f = "intersection" -> intersection(a[1], a[2], a[3], a[4], a[5])
    [] f = "intersectionLocals" -> intersectionLocals(a[1], a[2], a[3], a[4], a[5])
    [] f = "crossTrackDistanceTo" -> crossTrackDistanceTo(a[1], a[2], a[3], a[4], a[5])
    [] f = "maxLatitude" -> maxLatitude(a[1], a[2], a[3])
    [] f = "crossingParallels" -> crossingParallels(a[1], a[2], a[3], a[4])
    [] f = "rhumbDistanceLocals" -> rhumbDistanceLocals(a[1], a[2], a[3])
    [] f = "rhumbBearingLocals" -> rhumbBearingLocals(a[1], a[2], a[3])
    [] f = "rhumbDistanceTo" -> rhumbDistanceTo(a[1], a[2], a[3], a[4])
    [] f = "rhumbBearingTo" -> rhumbBearingTo(a[1], a[2], a[3])
    [] f = "rhumbDestinationPoint" -> rhumbDestinationPoint(a[1], a[2], a[3], a[4], a[5])
    [] f = "rhumbMidpointLocals" -> rhumbMidpointLocals(a[1], a[2], a[3])
    [] f = "rhumbMidpointTo" -> rhumbMidpointTo(a[1], a[2], a[3])

\* ------------------------------------------------------------ worker

(***************************************************************************)
(* A request is event.data: a record of the fields the listener reads; a   *)
(* field the sender left out is undefined.  The action tag is a string.    *)
(***************************************************************************)

\* the action tag of a request that has none
NoAction == "(undefined)"

\* the module-level variables of the worker, which outlive a call
WorkerScope == [Dms |-> "dms.js"]

\* a faulty message, which posts nothing
messageLost(data) == <<>>

\* function message(data) { self.postMessage(data); }: the messages posted
message(data) == <<data>>

\* the reply to a request: its sequence identifier and a payload
Reply(nr, data) == [nr |-> nr, data |-> data]

\* { 'lat': p2.lat, 'lon': p2.lon } of the point an outcome returned
LatLonOf(o) == [lat |-> o.heap[o.value].lat, lon |-> o.heap[o.value].lon]

\* what a run of the listener did: the messages it posted, the scope it left
\* and the functions of the library it invoked
Done(posted, scope, invoked) == [posted |-> posted, scope |-> scope, invoked |-> invoked]

\* a faulty listener without the 'midpoint' case
listenerTwoWay(data, scope) ==
  IF data.action = "distance"
  THEN LET a == LatLon(<<>>, data.lat1, data.lon1)
           b == LatLon(a.heap, data.lat2, data.lon2)
       IN  Let(Call("distanceTo", <<b.heap, a.value, b.value, Undefined>>), LAMBDA d :
           Done(message(Reply(data.nr, [distance |-> d.value])), scope,
                <<"distanceTo">>))
  ELSE LET p1 == LatLon(<<>>, data.lat, data.lon)
       IN  Let(Call("destinationPoint",
                    <<p1.heap, p1.value, data.distance, data.degree, Undefined>>),
               LAMBDA p2 :
           Done(message(Reply(data.nr, LatLonOf(p2))), scope, <<"destinationPoint">>))

\* a faulty listener whose p1 is a variable of the module, set by the first
\* request that needs it and read by the later ones
listenerSharedP1(data, scope) ==
  IF data.action = "distance"
  THEN LET a == LatLon(<<>>, data.lat1, data.lon1)
           b == LatLon(a.heap, data.lat2, data.lon2)
       IN  Let(Call("distanceTo", <<b.heap, a.value, b.value, Undefined>>), LAMBDA d :
           Done(message(Reply(data.nr, [distance |-> d.value])), scope,
                <<"distanceTo">>))
  ELSE IF data.action = "midpoint"
  THEN LET p1 == IF "p1" \in DOMAIN scope
                 THEN LatLon(<<>>, scope.p1[1], scope.p1[2])
                 ELSE LatLon(<<>>, data.lat1, data.lon1)
           b  == LatLon(p1.heap, data.lat2, data.lon2)
       IN  Let(Call("midpointTo", <<b.heap, p1.value, b.value>>), LAMBDA p2 :
           Done(message(Reply(data.nr, LatLonOf(p2))),
                [Dms |-> scope.Dms,
                 p1 |-> <<p1.heap[p1.value].lat, p1.heap[p1.value].lon>>],
                <<"midpointTo">>))
  ELSE LET p1 == IF "p1" \in DOMAIN scope
                 THEN LatLon(<<>>, scope.p1[1], scope.p1[2])
                 ELSE LatLon(<<>>, data.lat, data.lon)
       IN  Let(Call("destinationPoint",
                    <<p1.heap, p1.value, data.distance, data.degree, Undefined>>),
               LAMBDA p2 :
           Done(message(Reply(data.nr, LatLonOf(p2))),
                [Dms |-> scope.Dms,
                 p1 |-> <<p1.heap[p1.value].lat, p1.heap[p1.value].lon>>],
                <<"destinationPoint">>))

\* the 'message' event listener
listener(data, scope) ==
  IF data.action = "distance"
  THEN LET a == LatLon(<<>>, data.lat1, data.lon1)
           b == LatLon(a.heap, data.lat2, data.lon2)
       IN  Let(Call("distanceTo", <<b.heap, a.value, b.value, Undefined>>), LAMBDA d :
           Done(message(Reply(data.nr, [distance |-> d.value])), scope,
                <<"distanceTo">>))
  ELSE IF data.action = "midpoint"
  THEN LET p1 == LatLon(<<>>, data.lat1, data.lon1)
           b  == LatLon(p1.heap, data.lat2, data.lon2)
       IN  Let(Call("midpointTo", <<b.heap, p1.value, b.value>>), LAMBDA p2 :
           Done(message(Reply(data.nr, LatLonOf(p2))), scope, <<"midpointTo">>))
  ELSE LET p1 == LatLon(<<>>, data.lat, data.lon)
       IN  Let(Call("destinationPoint",
                    <<p1.heap, p1.value, data.distance, data.degree, Undefined>>),
               LAMBDA p2 :
           Done(message(Reply(data.nr, LatLonOf(p2))), scope, <<"destinationPoint">>))

\* ------------------------------------------------------------ state

VARIABLES
  inbox,      \* requests posted to the worker and not yet delivered
  delivered,  \* history: the requests delivered to the listener, in order
  outbox,     \* the messages the worker has posted, in order
  invoked,    \* history: the library functions each delivery invoked
  scope,      \* the worker's module-level variables
  heap,       \* the objects the library's caller holds
  born,       \* history: each object of heap as it was when the caller got it
  room,       \* how many more results the caller will hold on to
  call        \* the library call that has just ended, with its outcome

vars == <<inbox, delivered, outbox, invoked, scope, heap, born, room, call>>

workerVars == <<inbox, delivered, outbox, invoked, scope>>

libVars == <<heap, born, room, call>>

\* ------------------------------------------------------------ bounds

\* requests one behaviour posts
MaxRequests == 2

\* sequence identifiers are 1..MaxNr
MaxNr == 2

\* results the library's caller holds on to and passes to later calls
MaxKeep == 1

\* ------------------------------------------------------------ the worker

Request(action, nr, lat1, lon1, lat2, lon2, lat, lon, distance, degree) ==
  [action |-> action, nr |-> nr, lat1 |-> lat1, lon1 |-> lon1, lat2 |-> lat2,
   lon2 |-> lon2, lat |-> lat, lon |-> lon, distance |-> distance, degree |-> degree]

\* lat1, lon1, lat2, lon2: Cambridge and Paris of the examples, and a request
\* without the fields
TwoPointFields ==
  { <<522050, 1190, 488570, 23510>>,
    <<Undefined, Undefined, Undefined, Undefined>> }

\* lat, lon, distance in metres and degree
DestinationFields ==
  { <<514778, 0 - 15, 7794, 3007000>>,
    <<0 - 45 * Unit, 170 * Unit, 5000000, 90 * Unit>> }

Requests ==
  { Request(a, n, f[1], f[2], f[3], f[4], Undefined, Undefined, Undefined, Undefined) :
      a \in {"distance", "midpoint"}, n \in 1..MaxNr, f \in TwoPointFields }
  \cup
  { Request(a, n, Undefined, Undefined, Undefined, Undefined, f[1], f[2], f[3], f[4]) :
      a \in {"destination", NoAction}, n \in 1..MaxNr, f \in DestinationFields }

\* no library call has ended
NoCall ==
  [op |-> "none", this |-> Undefined, points |-> <<>>, params |-> <<>>, size |-> 0,
   kind |-> "none", type |-> "none", value |-> Undefined, message |-> "",
   object |-> <<>>, locals |-> <<>>]

InitWorker ==
  /\ inbox = <<>>
  /\ delivered = <<>>
  /\ outbox = <<>>
  /\ invoked = <<>>
  /\ scope = WorkerScope

\* the library's direct caller does nothing while the worker is looked at
LibIdle ==
  /\ heap = <<>>
  /\ born = <<>>
  /\ room = 0
  /\ call = NoCall

Init == InitWorker /\ LibIdle

\* worker.postMessage(request) on the main thread
PostMessage ==
  /\ Len(delivered) + Len(inbox) < MaxRequests
  /\ \E r \in Requests : inbox' = Append(inbox, r)
  /\ UNCHANGED <<delivered, outbox, invoked, scope>>
  /\ UNCHANGED libVars

\* the event loop delivers the oldest request; the listener runs to its end
Listener ==
  /\ inbox # <<>>
  /\ LET r == listener(Head(inbox), scope)
     IN  /\ outbox' = outbox \o r.posted
         /\ invoked' = Append(invoked, r.invoked)
         /\ scope' = r.scope
  /\ delivered' = Append(delivered, Head(inbox))
  /\ inbox' = Tail(inbox)
  /\ UNCHANGED libVars

Next == PostMessage \/ Listener

Spec == Init /\ [][Next]_vars

\* ------------------------------------------------------------ the library called directly

(***************************************************************************)
(* A caller holds some objects and calls the library on them.  A call ends *)
(* with an outcome, which the caller takes before its next call; it holds  *)
(* on to a returned object while it has room, and drops it otherwise.  D   *)
(* gives what the caller passes: receivers, values for Point positions,    *)
(* coordinates, distances, bearings, fractions, latitudes and radii.       *)
(***************************************************************************)

\* the call of op on receiver this ended with outcome o; l are its locals
Invoke(op, this, points, params, o, l) ==
  /\ call = NoCall
  /\ call' = [op |-> op, this |-> this, points |-> points, params |-> params,
              size |-> Len(heap), kind |-> o.kind, type |-> o.type, value |-> o.value,
              message |-> o.message,
              object |-> IF o.type = "object" THEN o.heap[o.value] ELSE <<>>,
              locals |-> l]
  /\ IF Len(o.heap) > Len(heap) /\ room > 0
     THEN /\ heap' = o.heap
          /\ born' = Append(born, o.heap[Len(o.heap)])
          /\ room' = room - 1
     ELSE /\ heap' = SubSeq(o.heap, 1, Len(heap))
          /\ born' = born
          /\ room' = room
  /\ UNCHANGED workerVars

\* the caller takes the outcome
Resume ==
  /\ call # NoCall
  /\ call' = NoCall
  /\ UNCHANGED <<heap, born, room>>
  /\ UNCHANGED workerVars

Construct(D) ==
  \E c \in D.coordinates :
    Invoke("LatLon", Undefined, <<>>, <<c[1], c[2]>>, LatLon(heap, c[1], c[2]), <<>>)

CallDistanceTo(D) ==
  \E this \in D.receivers, point \in D.arguments, radius \in D.radii :
    Invoke("distanceTo", this, <<point>>, <<radius>>,
           Call("distanceTo", <<heap, this, point, radius>>), <<>>)

CallBearingTo(D) ==
  \E this \in D.receivers, point \in D.arguments :
    Invoke("bearingTo", this, <<point>>, <<>>,
           Call("bearingTo", <<heap, this, point>>), <<>>)

CallFinalBearingTo(D) ==
  \E this \in D.receivers, point \in D.arguments :
    Invoke("finalBearingTo", this, <<point>>, <<>>,
           Call("finalBearingTo", <<heap, this, point>>), <<>>)

CallMidpointTo(D) ==
  \E this \in D.receivers, point \in D.arguments :
    Invoke("midpointTo", this, <<point>>, <<>>,
           Call("midpointTo", <<heap, this, point>>), <<>>)

CallIntermediatePointTo(D) ==
  \E this \in D.receivers, point \in D.arguments, fraction \in D.fractions :
    Invoke("intermediatePointTo", this, <<point>>, <<fraction>>,
           Call("intermediatePointTo", <<heap, this, point, fraction>>), <<>>)

CallDestinationPoint(D) ==
  \E this \in D.receivers, distance \in D.distances, bearing \in D.bearings,
     radius \in D.radii :
    Invoke("destinationPoint", this, <<>>, <<distance, bearing, radius>>,
           Call("destinationPoint", <<heap, this, distance, bearing, radius>>), <<>>)

CallIntersection(D) ==
  \E p1 \in D.arguments, p2 \in D.arguments, brng1 \in D.bearings, brng2 \in D.bearings :
    Invoke("intersection", Undefined, <<p1, p2>>, <<brng1, brng2>>,
           Call("intersection", <<heap, p1, brng1, p2, brng2>>),
           IF InstanceOfLatLon(heap, p1) /\ InstanceOfLatLon(heap, p2)
           THEN Call("intersectionLocals", <<heap, p1, brng1, p2, brng2>>) ELSE <<>>)

CallCrossTrackDistanceTo(D) ==
  \E this \in D.receivers, pathStart \in D.arguments, pathEnd \in D.arguments,
     radius \in D.radii :
    Invoke("crossTrackDistanceTo", this, <<pathStart, pathEnd>>, <<radius>>,
           Call("crossTrackDistanceTo", <<heap, this, pathStart, pathEnd, radius>>), <<>>)

CallMaxLatitude(D) ==
  \E this \in D.receivers, bearing \in D.bearings :
    Invoke("maxLatitude", this, <<>>, <<bearing>>,
           Call("maxLatitude", <<heap, this, bearing>>), <<>>)

CallCrossingParallels(D) ==
  \E point1 \in D.arguments, point2 \in D.arguments, latitude \in D.latitudes :
    Invoke("crossingParallels", Undefined, <<point1, point2>>, <<latitude>>,
           Call("crossingParallels", <<heap, point1, point2, latitude>>), <<>>)

CallRhumbDistanceTo(D) ==
  \E this \in D.receivers, point \in D.arguments, radius \in D.radii :
    Invoke("rhumbDistanceTo", this, <<point>>, <<radius>>,
           Call("rhumbDistanceTo", <<heap, this, point, radius>>),
           IF InstanceOfLatLon(heap, point)
           THEN Call("rhumbDistanceLocals", <<heap, this, point>>) ELSE <<>>)

CallRhumbBearingTo(D) ==
  \E this \in D.receivers, point \in D.arguments :
    Invoke("rhumbBearingTo", this, <<point>>, <<>>,
           Call("rhumbBearingTo", <<heap, this, point>>),
           IF InstanceOfLatLon(heap, point)
           THEN Call("rhumbBearingLocals", <<heap, this, point>>) ELSE <<>>)

CallRhumbDestinationPoint(D) ==
  \E this \in D.receivers, distance \in D.distances, bearing \in D.bearings,
     radius \in D.radii :
    Invoke("rhumbDestinationPoint", this, <<>>, <<distance, bearing, radius>>,
           Call("rhumbDestinationPoint", <<heap, this, distance, bearing, radius>>),
           <<>>)

CallRhumbMidpointTo(D) ==
  \E this \in D.receivers, point \in D.arguments :
    Invoke("rhumbMidpointTo", this, <<point>>, <<>>,
           Call("rhumbMidpointTo", <<heap, this, point>>),
           IF InstanceOfLatLon(heap, point)
           THEN Call("rhumbMidpointLocals", <<heap, this, point>>) ELSE <<>>)

\* a caller that holds two points and a plain object, passes any value it
\* holds or undefined where a Point is expected, and holds on to results
LibPoints == { <<0, 0>>, <<45 * Unit, 170 * Unit>> }

LibDom ==
  [receivers   |-> { r \in DOMAIN heap : heap[r].class = "LatLon" },
   arguments   |-> DOMAIN heap \cup {Undefined},
   coordinates |-> { <<0 - 60 * Unit, 400 * Unit>> },
   distances   |-> { 5000000 },
   bearings    |-> { 90 * Unit },
   fractions   |-> { 2500 },
   latitudes   |-> { 30 * Unit },
   radii       |-> { Undefined }]

InitLib ==
  /\ InitWorker
  /\ \E a \in LibPoints, b \in LibPoints :
       heap = <<LatLonObject(a[1], a[2]), LatLonObject(b[1], b[2]),
                PlainObject(10 * Unit, 20 * Unit)>>
  /\ born = heap
  /\ room = MaxKeep
  /\ call = NoCall

NextLib ==
  \/ Construct(LibDom)
  \/ CallDistanceTo(LibDom)
  \/ CallBearingTo(LibDom)
  \/ CallFinalBearingTo(LibDom)
  \/ CallMidpointTo(LibDom)
  \/ CallIntermediatePointTo(LibDom)
  \/ CallDestinationPoint(LibDom)
  \/ CallIntersection(LibDom)
  \/ CallCrossTrackDistanceTo(LibDom)
  \/ CallMaxLatitude(LibDom)
  \/ CallCrossingParallels(LibDom)
  \/ CallRhumbDistanceTo(LibDom)
  \/ CallRhumbBearingTo(LibDom)
  \/ CallRhumbDestinationPoint(LibDom)
  \/ CallRhumbMidpointTo(LibDom)
  \/ Resume

SpecLib == InitLib /\ [][NextLib]_vars

\* a caller that holds two points, from the poles to the equator and from
\* longitudes out of range to the anti-meridian, and makes one call on them
FnLatitudes == { 0 - 90, 0 - 60, 0 - 45, 0, 30, 75 }

FnLongitudes == { 0 - 750, 0, 170, 180 }

FnPoints == { <<lat * Unit, lon * Unit>> : lat \in FnLatitudes, lon \in FnLongitudes }

FnDom ==
  [receivers   |-> { 1 },
   arguments   |-> { 1, 2 },
   coordinates |-> { <<522050, 1190>> },
   distances   |-> { 0, 5000000, 5 * EarthRadius },
   bearings    |-> { 0, 90 * Unit, 225 * Unit, 315 * Unit },
   fractions   |-> { 2500 },
   latitudes   |-> { 30 * Unit },
   radii       |-> { Undefined }]

InitFn ==
  /\ InitWorker
  /\ \E a \in FnPoints, b \in FnPoints :
       heap = <<LatLonObject(a[1], a[2]), LatLonObject(b[1], b[2])>>
  /\ born = heap
  /\ room = 0
  /\ call = NoCall

NextFn ==
  \/ Construct(FnDom)
  \/ CallDistanceTo(FnDom)
  \/ CallBearingTo(FnDom)
  \/ CallFinalBearingTo(FnDom)
  \/ CallMidpointTo(FnDom)
  \/ CallIntermediatePointTo(FnDom)
  \/ CallDestinationPoint(FnDom)
  \/ CallIntersection(FnDom)
  \/ CallCrossTrackDistanceTo(FnDom)
  \/ CallMaxLatitude(FnDom)
  \/ CallCrossingParallels(FnDom)
  \/ CallRhumbDistanceTo(FnDom)
  \/ CallRhumbBearingTo(FnDom)
  \/ CallRhumbDestinationPoint(FnDom)
  \/ CallRhumbMidpointTo(FnDom)
  \/ Resume

SpecFn == InitFn /\ [][NextFn]_vars

\* a caller that holds two points in the mid latitudes, on one meridian or ten
\* degrees apart, and asks where two paths from them intersect.  Points on one
\* meridian put the arc-cosine arguments of intersection at 1 or -1 up to
\* rounding; on these points the fixed-point evaluation and the evaluation in
\* IEEE doubles round the same arguments out of [-1, 1].
IxLatitudes == { 25, 45, 50 }

IxLongitudes == { 0, 10 }

IxPoints == { <<lat * Unit, lon * Unit>> : lat \in IxLatitudes, lon \in IxLongitudes }

IxDom ==
  [arguments |-> { 1, 2 },
   bearings  |-> { 0, 90 * Unit, 225 * Unit }]

InitIx ==
  /\ InitWorker
  /\ \E a \in IxPoints, b \in IxPoints :
       heap = <<LatLonObject(a[1], a[2]), LatLonObject(b[1], b[2])>>
  /\ born = heap
  /\ room = 0
  /\ call = NoCall

NextIx ==
  \/ CallIntersection(IxDom)
  \/ Resume

SpecIx == InitIx /\ [][NextIx]_vars

\* a caller that holds two points on parallels north and south of the equator,
\* with longitudes across the anti-meridian, half a turn apart and out of
\* range, and asks for the rhumb distance, bearing and midpoint between them
RhLatitudes == { 0 - 22, 44, 52 }

RhLongitudes == { 0 - 750, 0 - 170, 0, 10, 170, 180 }

RhPoints == { <<lat * Unit, lon * Unit>> : lat \in RhLatitudes, lon \in RhLongitudes }

RhDom ==
  [receivers |-> { 1 },
   arguments |-> { 1, 2 },
   radii     |-> { Undefined }]

InitRh ==
  /\ InitWorker
  /\ \E a \in RhPoints, b \in RhPoints :
       heap = <<LatLonObject(a[1], a[2]), LatLonObject(b[1], b[2])>>
  /\ born = heap
  /\ room = 0
  /\ call = NoCall

NextRh ==
  \/ CallRhumbDistanceTo(RhDom)
  \/ CallRhumbBearingTo(RhDom)
  \/ CallRhumbMidpointTo(RhDom)
  \/ Resume

SpecRh == InitRh /\ [][NextRh]_vars

\* ------------------------------------------------------------ properties of the worker

\* C1: every request delivered to the listener has produced exactly one reply,
\* in order, and the reply carries the request's sequence identifier nr; there
\* is no reply without a request.
C1_OneReplyPerRequest ==
  /\ Len(outbox) = Len(delivered)
  /\ \A i \in 1..Len(outbox) : i <= Len(delivered) => outbox[i].nr = delivered[i].nr

\* two requests with different identifiers have been answered
C1_Witness ==
  /\ Len(delivered) = 2
  /\ Len(outbox) = 2
  /\ delivered[1].nr # delivered[2].nr
  /\ outbox[2].nr = delivered[2].nr

\* the two points of a two-point request, and the point of a destination request
TwoPoints(r) ==
  <<LatLonObject(Number(r.lat1), Number(r.lon1)),
    LatLonObject(Number(r.lat2), Number(r.lon2))>>

OnePoint(r) == <<LatLonObject(Number(r.lat), Number(r.lon))>>

\* the function a request selects and the payload of its reply, with the mean
\* radius of the earth passed where the request leaves the radius out
Selected(r) ==
  IF r.action = "distance"
  THEN [invoked |-> <<"distanceTo">>,
        data |-> [distance |-> Call("distanceTo", <<TwoPoints(r), 1, 2, EarthRadius>>).value]]
  ELSE IF r.action = "midpoint"
  THEN [invoked |-> <<"midpointTo">>,
        data |-> LatLonOf(Call("midpointTo", <<TwoPoints(r), 1, 2>>))]
  ELSE [invoked |-> <<"destinationPoint">>,
        data |-> LatLonOf(Call("destinationPoint",
                               <<OnePoint(r), 1, r.distance, r.degree, EarthRadius>>))]

\* C2: the action tag selects the function: 'distance' replies {distance} of
\* distanceTo at the default radius, 'midpoint' replies {lat, lon} of midpointTo,
\* any other or missing action replies {lat, lon} of destinationPoint at the
\* default radius; each delivery invokes exactly that one function.
C2_Dispatch ==
  /\ Len(invoked) = Len(delivered)
  /\ \A i \in 1..Len(delivered) :
       /\ invoked[i] = Selected(delivered[i]).invoked
       /\ i <= Len(outbox) => outbox[i].data = Selected(delivered[i]).data

\* a request without an action and a 'midpoint' request have been answered
C2_Witness ==
  \E i, j \in 1..Len(outbox) :
    /\ delivered[i].action = NoAction
    /\ invoked[i] = <<"destinationPoint">>
    /\ delivered[j].action = "midpoint"
    /\ IsFinite(outbox[j].data.lat)

\* C8: the reply to a request depends on the request's fields alone: it is the
\* reply of a worker that has handled nothing before, equal requests get equal
\* replies, and the module-level variables are as they were at the start.
C8_RequestAlone ==
  /\ scope = WorkerScope
  /\ \A i \in 1..Len(outbox) :
       i <= Len(delivered) => outbox[i] = listener(delivered[i], WorkerScope).posted[1]
  /\ \A i, j \in 1..Len(outbox) :
       (i <= Len(delivered) /\ j <= Len(delivered) /\ delivered[i] = delivered[j])
         => outbox[i].data = outbox[j].data

\* a request for a point has been answered after another request for a
\* different point
C8_Witness ==
  /\ Len(outbox) = 2
  /\ delivered[1].action # "distance"
  /\ delivered[2].action # "distance"
  /\ IsFinite(outbox[1].data.lat)
  /\ IsFinite(outbox[2].data.lat)
  /\ outbox[1].data # outbox[2].data

\* ------------------------------------------------------------ properties of the library

\* the operations with a Point parameter
PointOps ==
  { "distanceTo", "bearingTo", "finalBearingTo", "midpointTo", "intermediatePointTo",
    "intersection", "crossTrackDistanceTo", "crossingParallels", "rhumbDistanceTo",
    "rhumbBearingTo", "rhumbMidpointTo" }

\* C3: a call of an operation with a Point parameter that is given a value
\* that is not a LatLon in a Point position throws the TypeError and returns
\* nothing; a call ends by returning or by throwing that TypeError.
C3_InvalidArgumentType ==
  /\ (call.op \in PointOps
      /\ \E i \in DOMAIN call.points : ~InstanceOfLatLon(heap, call.points[i]))
       => (call.kind = "throw" /\ call.type = "TypeError")
  /\ call.op # "none"
       => (call.kind = "return" \/ (call.kind = "throw" /\ call.type = "TypeError"))

\* C7: the objects the caller holds have the fields they had when it got them,
\* whatever calls were made on them, and an object a call returns is not one
\* that existed before the call.
C7_PointsUnchanged ==
  /\ heap = born
  /\ (call.kind = "return" /\ call.type = "object") => call.value > call.size

\* a call on a point that an earlier call returned has itself returned a point
C7_Witness ==
  /\ call.op \in {"midpointTo", "rhumbMidpointTo"}
  /\ call.this = 4
  /\ call.points = <<1>>
  /\ call.type = "object"
  /\ Len(heap) = 4

\* ------------------------------------------------------------ properties of the functions

\* the operations that compute a longitude
LonOps ==
  { "midpointTo", "intermediatePointTo", "destinationPoint", "intersection",
    "crossingParallels", "rhumbDestinationPoint", "rhumbMidpointTo" }

\* x is a longitude in (-180, 180]
Normalized180(x) == Lt(0 - 180 * Unit, x) /\ (Lt(x, 180 * Unit) \/ Eq(x, 180 * Unit))

\* C4: a longitude that midpointTo, intermediatePointTo, destinationPoint,
\* intersection, crossingParallels, rhumbDestinationPoint or rhumbMidpointTo
\* returns lies in (-180, 180], whatever the longitudes and distances given.
C4_LongitudeNormalized ==
  (call.op \in LonOps /\ call.kind = "return" /\ call.type = "object")
    => IF call.op = "crossingParallels"
       THEN Normalized180(call.object.lon1) /\ Normalized180(call.object.lon2)
       ELSE Normalized180(call.object.lon)

\* C5: the bearing that bearingTo, finalBearingTo or rhumbBearingTo returns
\* lies in [0, 360), for every pair of points.
C5_BearingNormalized ==
  (call.op \in {"bearingTo", "finalBearingTo", "rhumbBearingTo"} /\ call.kind = "return")
    => (Lt(call.value, 360 * Unit) /\ (Gt(call.value, 0) \/ Eq(call.value, 0)))

\* p1 and p2 have the same latitude and the same longitude
Coincide(h, p1, p2) == Eq(h[p1].lat, h[p2].lat) /\ Eq(h[p1].lon, h[p2].lon)

\* C6: intersection returns null, and no point, when its two points have the
\* same latitude and longitude, whatever the two bearings.
C6_CoincidentIsNull ==
  (call.op = "intersection" /\ Coincide(heap, call.points[1], call.points[2]))
    => (call.kind = "return" /\ call.type = "null")

\* intersection has returned null for two equal points held as two objects,
\* with two different bearings
C6_Witness ==
  /\ call.op = "intersection"
  /\ call.points = <<1, 2>>
  /\ Coincide(heap, 1, 2)
  /\ call.params[1] # call.params[2]
  /\ call.type = "null"

\* x is a latitude in [-90, 90]
InLatitudeRange(x) ==
  (Lt(0 - 90 * Unit, x) \/ Eq(0 - 90 * Unit, x)) /\ (Lt(x, 90 * Unit) \/ Eq(x, 90 * Unit))

\* C9: the latitude of the point rhumbDestinationPoint returns lies in
\* [-90, 90], for every start latitude in [-90, 90], distance and bearing.
C9_LatitudeInRange ==
  (call.op = "rhumbDestinationPoint" /\ call.type = "object"
   /\ InLatitudeRange(heap[call.this].lat))
    => InLatitudeRange(call.object.lat)

\* C10: when intersection returns a point, none of the angles it took from an
\* arc-cosine is NaN: a NaN arc-cosine has been replaced by 0 for each of
\* thetaa, thetab and alpha3.
C10_ArcCosineClamped ==
  (call.op = "intersection" /\ call.kind = "return" /\ call.type = "object")
    => (~IsNaN(call.locals.thetaa) /\ ~IsNaN(call.locals.thetab)
        /\ ~IsNaN(call.locals.alpha3))

\* ------------------------------------------------------------ properties of the rhumb functions

\* the rounding error allowed to a value that went through the conversion to
\* radians and back, in units of the last place of the radians
Ulps == 2

\* a and b, in degrees, are equal up to the rounding error
Near(a, b) ==
  IsFinite(a) /\ IsFinite(b) /\ AbsI(a - b) <= toDegrees(Ulps)

\* a and b, in degrees, are equal modulo 360 up to the rounding error
NearMod360(a, b) ==
  IsFinite(a) /\ IsFinite(b)
  /\ (AbsI(a - b) <= toDegrees(Ulps) \/ AbsI(AbsI(a - b) - 360 * Unit) <= toDegrees(Ulps))

\* the smaller of two finite numbers
Min(a, b) == IF a < b THEN a ELSE b

\* the last call was rhumbDistanceTo or rhumbBearingTo on two points
RhumbLonCall ==
  call.op \in {"rhumbDistanceTo", "rhumbBearingTo"} /\ call.kind = "return"

\* |lon2 - lon1| of the last call, in degrees
LonApart == Abs(Sub(heap[call.points[1]].lon, heap[call.this].lon))

\* C11: in rhumbDistanceTo and rhumbBearingTo the longitude difference that
\* enters the formula has magnitude at most 180 degrees for every pair of
\* longitudes; for |lon2 - lon1| <= 360 its magnitude is
\* min(|lon2 - lon1|, 360 - |lon2 - lon1|); and the two functions use the same
\* magnitude for the same pair of points.
C11_ShorterWayRound ==
  RhumbLonCall =>
    /\ ~Gt(Abs(call.locals.dlambda), PI)
    /\ (LonApart <= 360 * Unit =>
          Near(toDegrees(Abs(call.locals.dlambda)), Min(LonApart, 360 * Unit - LonApart)))
    /\ Abs(Call("rhumbDistanceLocals", <<heap, call.this, call.points[1]>>).dlambda)
         = Abs(Call("rhumbBearingLocals", <<heap, call.this, call.points[1]>>).dlambda)

\* the last call was rhumbMidpointTo on two points of one parallel
SameParallel ==
  /\ call.op = "rhumbMidpointTo" /\ call.kind = "return" /\ call.type = "object"
  /\ heap[call.this].lat = heap[call.points[1]].lat

\* the normalized arithmetic mean of two longitudes in degrees, the first
\* shifted by a full turn or not
MeanLon(lon1, lon2, shifted) ==
  Wrap180(Half(Add(IF shifted THEN Add(lon1, 360 * Unit) ELSE lon1, lon2)))

\* the fallback of rhumbMidpointTo is taken if and only if the quotient is not
\* finite
FallbackRule ==
  IF IsFinite(call.locals.quot)
  THEN call.locals.lambda3 = call.locals.quot
  ELSE call.locals.lambda3 = Half(Add(call.locals.lambda1, call.locals.lambda2))

\* C12 as stated: for two points on one parallel rhumbMidpointTo returns
\* exactly that latitude and exactly the normalized arithmetic mean of the
\* longitudes, the first shifted by 360 degrees exactly when they differ by
\* more than 180 degrees; the fallback is taken if and only if the quotient
\* is not finite.
C12_SameParallelMeanExact ==
  /\ SameParallel =>
       /\ call.object.lat = heap[call.this].lat
       /\ call.object.lon = MeanLon(heap[call.this].lon, heap[call.points[1]].lon,
                                    LonApart > 180 * Unit)
  /\ (call.op = "rhumbMidpointTo" /\ call.kind = "return") => FallbackRule

\* C12: for two points on one parallel rhumbMidpointTo returns that latitude
\* up to the rounding error of the conversion to radians and back, and a
\* longitude that equals, modulo 360 and up to the same rounding error, the
\* normalized arithmetic mean of the longitudes, the first shifted by 360
\* degrees when they differ by more than 180 degrees (shifted or not when
\* they are 180 degrees apart to within the rounding error); the fallback is
\* taken if and only if the quotient is not finite.
C12_SameParallelMean ==
  /\ SameParallel =>
       /\ Near(call.object.lat, heap[call.this].lat)
       /\ \E shifted \in (IF AbsI(LonApart - 180 * Unit) <= toDegrees(Ulps)
                           THEN BOOLEAN ELSE {LonApart > 180 * Unit}) :
            NearMod360(call.object.lon,
                       MeanLon(heap[call.this].lon, heap[call.points[1]].lon, shifted))
  /\ (call.op = "rhumbMidpointTo" /\ call.kind = "return") => FallbackRule

\* two points on one parallel across the anti-meridian: the first longitude
\* is shifted and the fallback gives the mean
C12_Witness ==
  /\ SameParallel
  /\ LonApart > 180 * Unit
  /\ ~IsFinite(call.locals.quot)
  /\ call.locals.lambda1 = Add(toRadians(heap[call.this].lon), 2 * PI)
====
